---------------------------- MODULE Spec2Model ----------------------------
(* Checkpoint + write-ahead-log persistence of the sheet service            *)
(* (service: SheetFSCheck, appendOneSheetLog, commitOneSheetWithCache,      *)
(* recoverSheetFromLog; dao: FileCreate, FileGetAll, FileAppend,            *)
(* FileOverwriteAll, DirFileNamesAll, DirFilenamesAllSorted).               *)
(*                                                                          *)
(* A file is a sequence of tokens; json.Marshal of one record is one token, *)
(* so a file offset counts encoded records.  The Timestamp field of a       *)
(* checkpoint is left out: nothing reads it.                                *)
EXTENDS Integers, Sequences, FiniteSets, TLC

(***************************************************************************)
(* Program constants and bounds                                            *)
(***************************************************************************)
minRows == 10
minCols == 10

\* documents, threads and cell mutations the sessions may send
Fids == {1, 2}
Threads == {1, 2}
Vals == {"a", "b"}
Muts == {<<11, 2, "a">>, <<11, 2, "b">>}

\* capacity of the sheet cache (a configuration parameter)
Capacity == 1
\* longest log file, in entries, the model lets grow
MaxLogLen == 2
\* length of a log file from which concurrent AppendLog calls are no longer
\* started
MaxConcLog == 1
\* crashes of the server process the model follows
MaxCrashes == 1
\* most checkpoints of a document handed to SheetFSCheck
MaxCkpt == 10
\* files lost or damaged in the store before a check
MaxFaults == 1
\* longest content handed to writeAll, longest file it writes into, in bytes
MaxContent == 3
MaxFile == 2

NoFile == "nofile"
None == "none"
Ok == "ok"
Err == "err"
Unrecoverable == "SheetFSUnrecoverableErr"
Panic == "panic"

Max(a, b) == IF a >= b THEN a ELSE b

(***************************************************************************)
(* cache.MemSheet: a grid of cells, 1-based, that grows on Set             *)
(***************************************************************************)
EmptyCells == [p \in {} |-> ""]

NewMemSheet(rows, cols) == [rows |-> rows, cols |-> cols, cells |-> EmptyCells]

Get(s, row, col) ==
    IF <<row, col>> \in DOMAIN s.cells THEN s.cells[<<row, col>>] ELSE ""

\* a Set outside the 1-based range of the grid changes nothing
SetCell(s, row, col, v) ==
    IF row < 1 \/ col < 1 THEN s ELSE
    LET dom == IF v = "" THEN DOMAIN s.cells \ {<<row, col>>}
                         ELSE DOMAIN s.cells \cup {<<row, col>>}
    IN  [rows  |-> Max(s.rows, row),
         cols  |-> Max(s.cols, col),
         cells |-> [p \in dom |-> IF p = <<row, col>> THEN v ELSE s.cells[p]]]

Shape(s) == <<s.rows, s.cols>>

\* row-major materialisation, length rows * cols
ToStringSlice(s) ==
    [i \in 1..(s.rows * s.cols) |->
        Get(s, ((i - 1) \div s.cols) + 1, ((i - 1) % s.cols) + 1)]

\* the column count is stored, the row count follows from the length
NewMemSheetFromStringSlice(content, columns) ==
    LET rows == (Len(content) + columns - 1) \div columns
        set  == {i \in 1..Len(content) : content[i] # ""}
        pos(i) == <<((i - 1) \div columns) + 1, ((i - 1) % columns) + 1>>
    IN  [rows  |-> rows,
         cols  |-> columns,
         cells |-> [p \in {pos(i) : i \in set} |->
                       content[CHOOSE i \in set : pos(i) = p]]]

(***************************************************************************)
(* gdocFS: the two record kinds and their codec                            *)
(***************************************************************************)
SheetLogPickle(lid, row, col, old, new) ==
    [lid |-> lid, row |-> row, col |-> col, old |-> old, new |-> new]

logCommitEntry == SheetLogPickle(0, -1, -1, "", "")

SheetCheckPointPickle(cid, rows, cols, content) ==
    [cid |-> cid, rows |-> rows, columns |-> cols, content |-> content]

IsLogToken(tok) == DOMAIN tok = {"lid", "row", "col", "old", "new"}
IsChkpToken(tok) == DOMAIN tok = {"cid", "rows", "columns", "content"}

\* json.Marshal of one record
Marshal(rec) == <<rec>>

\* all entries appended to the file, in append order
PickleSheetLogsFromContent(raw) ==
    IF \A i \in 1..Len(raw) : IsLogToken(raw[i])
    THEN [err |-> Ok, logs |-> raw]
    ELSE [err |-> Err, logs |-> <<>>]

PickleSheetCheckPointFromContent(raw) ==
    IF Len(raw) = 1 /\ IsChkpToken(raw[1])
    THEN [err |-> Ok, chkp |-> raw[1]]
    ELSE [err |-> Err, chkp |-> None]


(***************************************************************************)
(* State                                                                   *)
(***************************************************************************)
VARIABLES
    logDir,     \* logDir[f]: the files of <root>/sheet/f/log, name -> content
    chkpDir,    \* chkpDir[f]: the files of <root>/sheet/f/checkpoint
    heap,       \* the MemSheets alive: sid -> [fid, sheet, locked, fresh]
    cache,      \* the sheet cache: entries [fid, sid], least recent first
    th,         \* per thread: position and locals of the call it executes
    chkRes,     \* what the last SheetFSCheck returned
    crashInfo,  \* the commit a crash interrupted, if any
    crashes,    \* number of crashes so far
    freshCommit, \* documents whose checkpoint/1 came from a sheet born empty
    appended    \* appended[f][lid]: the entries whose FileAppend returned nil

\* the dao calls followed on their own, and the faults of the file store
VARIABLES
    faults,     \* number of files lost or damaged in the store so far
    lsRes,      \* what the last DirFilenamesAllSorted returned
    wr          \* the writeAll call in progress: file, content, off, toWrite

daoVars == <<faults, lsRes, wr>>

vars == <<logDir, chkpDir, heap, cache, th, chkRes, crashInfo, crashes,
          freshCommit, appended, faults, lsRes, wr>>


NoDir == [n \in {} |-> <<>>]
NoDisk == [log |-> NoDir, chkp |-> NoDir]
DiskOf(f) == [log |-> logDir[f], chkp |-> chkpDir[f]]
Appended(f, lid) ==
    IF lid \in DOMAIN appended[f] THEN appended[f][lid] ELSE <<>>
NoList == [op |-> None, dir |-> NoDir, names |-> <<>>]
NoWrite == [pc |-> None, file |-> <<>>, file0 |-> <<>>, content |-> <<>>,
            off0 |-> 0, off |-> 0, toWrite |-> 0, short |-> FALSE]

(***************************************************************************)
(* dfs: the file store (exclusive create, listing, whole-file read)        *)
(***************************************************************************)
\* dfs.Scan: the entries of a directory, here in ascending name order
RECURSIVE SeqOfSet(_)
SeqOfSet(S) ==
    IF S = {} THEN <<>>
    ELSE LET m == CHOOSE x \in S : \A y \in S : x <= y
         IN  <<m>> \o SeqOfSet(S \ {m})

Scan(dir) == SeqOfSet(DOMAIN dir)

\* dfs.Create fails on an existing path
Create(dir, name) ==
    IF name \in DOMAIN dir
    THEN [err |-> Err, dir |-> dir]
    ELSE [err |-> Ok,
          dir |-> [n \in DOMAIN dir \cup {name} |->
                      IF n = name THEN <<>> ELSE dir[n]]]

\* dfs.Write of the whole buffer at offset off
Write(file, off, content) ==
    [i \in 1..Max(Len(file), off + Len(content)) |->
        IF i > off /\ i <= off + Len(content) THEN content[i - off]
        ELSE file[i]]

(***************************************************************************)
(* dao                                                                     *)
(***************************************************************************)
\* one dfs.Write accepting everything offered
writeAll(file, off, content) == Write(file, off, content)

FileCreate(dir, name) == Create(dir, name)

FileGetAll(dir, name) ==
    IF name \in DOMAIN dir
    THEN [err |-> Ok, content |-> dir[name]]
    ELSE [err |-> Err, content |-> <<>>]

\* truncate when the new content is shorter, then write from offset 0
FileOverwriteAll(dir, name, content) ==
    IF name \notin DOMAIN dir THEN [err |-> Err, dir |-> dir]
    ELSE LET old == dir[name]
             cut == IF Len(old) > Len(content)
                    THEN SubSeq(old, 1, Len(content)) ELSE old
         IN  [err |-> Ok,
              dir |-> [dir EXCEPT ![name] = writeAll(cut, 0, content)]]

\* a listing loop bounded by the store's listing: i < len(fileInfos)
RECURSIVE DirFileNamesLoopAll(_, _, _)
DirFileNamesLoopAll(i, filenames, fileInfos) ==
    IF i < Len(fileInfos)
    THEN DirFileNamesLoopAll(i + 1, Append(filenames, fileInfos[i + 1]),
                             fileInfos)
    ELSE filenames

\* for i := 0; i < len(filenames); i++ { filenames = append(filenames, fileInfos[i].Name) }
RECURSIVE DirFileNamesLoop(_, _, _)
DirFileNamesLoop(i, filenames, fileInfos) ==
    IF i < Len(filenames)
    THEN DirFileNamesLoop(i + 1, Append(filenames, fileInfos[i + 1]), fileInfos)
    ELSE filenames

\* filenames is the named result, empty on entry
DirFileNamesAll(dir) == DirFileNamesLoop(0, <<>>, Scan(dir))

\* decimal digits of a file name
RECURSIVE Digits(_)
Digits(n) == IF n < 10 THEN <<n>> ELSE Append(Digits(n \div 10), n % 10)

RECURSIVE LexLess(_, _)
LexLess(a, b) ==
    IF a = <<>> THEN b # <<>>
    ELSE IF b = <<>> THEN FALSE
    ELSE IF Head(a) # Head(b) THEN Head(a) < Head(b)
    ELSE LexLess(Tail(a), Tail(b))

\* sort.Strings on the decimal names
RECURSIVE SortStrings(_)
SortStrings(names) ==
    IF names = <<>> THEN <<>>
    ELSE LET idx == CHOOSE i \in 1..Len(names) :
                       \A j \in 1..Len(names) :
                           ~LexLess(Digits(names[j]), Digits(names[i]))
             rest == [k \in 1..(Len(names) - 1) |->
                         IF k < idx THEN names[k] ELSE names[k + 1]]
         IN  <<names[idx]>> \o SortStrings(rest)

DirFilenamesAllSorted(dir) == SortStrings(DirFileNamesAll(dir))

(***************************************************************************)
(* service: reading the two directories of a document                      *)
(***************************************************************************)
sheetGetPickledLogFromDfs(f, lid) ==
    LET r == FileGetAll(logDir[f], lid)
    IN  IF r.err # Ok THEN [err |-> Err, logs |-> <<>>]
        ELSE PickleSheetLogsFromContent(r.content)

sheetGetPickledCheckPointFromDfs(f, cid) ==
    LET r == FileGetAll(chkpDir[f], cid)
    IN  IF r.err # Ok THEN [err |-> Err, chkp |-> None]
        ELSE PickleSheetCheckPointFromContent(r.content)

\* the name of the last listed checkpoint, 0 for an empty listing
sheetGetCheckPointNum(f) ==
    LET fileNames == DirFilenamesAllSorted(chkpDir[f])
    IN  IF Len(fileNames) # 0 THEN fileNames[Len(fileNames)] ELSE 0

\* the first result of a loop that returns at its first failure
RECURSIVE FirstBad(_)
FirstBad(rs) ==
    IF rs = <<>> THEN Ok
    ELSE IF Head(rs) # Ok THEN Head(rs) ELSE FirstBad(Tail(rs))

\* body of the loop over the log listing, for the entry at position curLid
LogCheckAt(f, names, curLid, fullChk) ==
    IF names[curLid] # curLid THEN Unrecoverable
    ELSE IF ~fullChk THEN Ok
    ELSE LET r == sheetGetPickledLogFromDfs(f, curLid)
         IN  IF r.err # Ok THEN Unrecoverable
             ELSE IF r.logs = <<>> THEN Panic
             ELSE IF r.logs[Len(r.logs)] = logCommitEntry THEN Ok
             ELSE IF curLid # Len(names) THEN Unrecoverable
             ELSE IF \E i \in 1..Len(r.logs) :
                        \/ r.logs[i].lid # curLid
                        \/ r.logs[i].row <= 0
                        \/ r.logs[i].col <= 0
                  THEN Unrecoverable
             ELSE Ok

\* the brief check of the last log
BriefLastLog(f, expectLid) ==
    LET r == sheetGetPickledLogFromDfs(f, expectLid)
    IN  IF r.err # Ok THEN Unrecoverable
        ELSE IF r.logs = <<>> THEN Panic
        ELSE Ok

\* body of the loop over the checkpoint listing
ChkpCheckAt(f, names, curCid, fullChk) ==
    IF names[curCid] # curCid THEN Unrecoverable
    ELSE IF ~fullChk THEN Ok
    ELSE LET r == sheetGetPickledCheckPointFromDfs(f, curCid)
         IN  IF r.err # Ok THEN Unrecoverable
             ELSE IF \/ r.chkp.cid # curCid
                     \/ r.chkp.rows <= 0
                     \/ r.chkp.columns <= 0
                  THEN Unrecoverable
             ELSE Ok

\* a check without the final comparison of the two counts
SheetFSCheckNoCount(f, fullChk) ==
    LET logFileNames  == DirFilenamesAllSorted(logDir[f])
        expectLid     == Len(logFileNames)
        chkpFileNames == DirFilenamesAllSorted(chkpDir[f])
        expectCid     == Len(chkpFileNames)
        fail(e)       == [err |-> e, cid |-> 0, lid |-> 0]
        r1 == FirstBad([k \in 1..expectLid |->
                           LogCheckAt(f, logFileNames, k, fullChk)])
        r2 == IF fullChk THEN Ok ELSE BriefLastLog(f, expectLid)
        r3 == FirstBad([k \in 1..expectCid |->
                           ChkpCheckAt(f, chkpFileNames, k, fullChk)])
    IN  IF r1 # Ok THEN fail(r1)
        ELSE IF r2 # Ok THEN fail(r2)
        ELSE IF r3 # Ok THEN fail(r3)
        ELSE [err |-> Ok, cid |-> expectCid, lid |-> expectLid]

\* SheetFSCheck(fid, fullChk): (cid, lid, err)
SheetFSCheck(f, fullChk) ==
    LET logFileNames  == DirFilenamesAllSorted(logDir[f])
        expectLid     == Len(logFileNames)
        chkpFileNames == DirFilenamesAllSorted(chkpDir[f])
        expectCid     == Len(chkpFileNames)
        fail(e)       == [err |-> e, cid |-> 0, lid |-> 0]
        r1 == FirstBad([k \in 1..expectLid |->
                           LogCheckAt(f, logFileNames, k, fullChk)])
        r2 == IF fullChk THEN Ok ELSE BriefLastLog(f, expectLid)
        r3 == FirstBad([k \in 1..expectCid |->
                           ChkpCheckAt(f, chkpFileNames, k, fullChk)])
    IN  IF r1 # Ok THEN fail(r1)
        ELSE IF r2 # Ok THEN fail(r2)
        ELSE IF r3 # Ok THEN fail(r3)
        ELSE IF expectCid + 1 # expectLid THEN fail(Unrecoverable)
        ELSE [err |-> Ok, cid |-> expectCid, lid |-> expectLid]

(***************************************************************************)
(* service: rebuilding a sheet from checkpoint curCid and log curCid + 1   *)
(***************************************************************************)
\* a replay that applies the old value of each entry instead of the new one
RECURSIVE RedoOld(_, _, _)
RedoOld(sheet, logs, n) ==
    IF n <= 0 THEN sheet
    ELSE LET s == RedoOld(sheet, logs, n - 1)
         IN  SetCell(s, logs[n].row, logs[n].col, logs[n].old)

\* memSheet.Set(log.Row, log.Col, log.New) for the first n entries
RECURSIVE Redo(_, _, _)
Redo(sheet, logs, n) ==
    IF n <= 0 THEN sheet
    ELSE LET s == Redo(sheet, logs, n - 1)
         IN  SetCell(s, logs[n].row, logs[n].col, logs[n].new)

\* for li := 0; li < len(logs) - 1; li++
RedoCount(logs) == Len(logs) - 1

recoverBuild(f) ==
    LET curCid == sheetGetCheckPointNum(f)
        c == IF curCid = 0 THEN [err |-> Ok, chkp |-> None]
             ELSE sheetGetPickledCheckPointFromDfs(f, curCid)
        l == sheetGetPickledLogFromDfs(f, curCid + 1)
        base == IF curCid = 0 THEN NewMemSheet(minRows, minCols)
                ELSE NewMemSheetFromStringSlice(c.chkp.content, c.chkp.columns)
    IN  IF c.err # Ok \/ l.err # Ok
        THEN [err |-> Err, sheet |-> NewMemSheet(0, 0)]
        ELSE [err |-> Ok, sheet |-> Redo(base, l.logs, RedoCount(l.logs))]

(***************************************************************************)
(* cache.SheetCache                                                        *)
(***************************************************************************)
InCache(f) == \E i \in 1..Len(cache) : cache[i].fid = f
CacheSid(f) == cache[CHOOSE i \in 1..Len(cache) : cache[i].fid = f].sid

\* Add: an entry already present is returned as existing and the caller's
\* sheet is dropped; otherwise the sheet is inserted and the coldest entries
\* beyond the capacity are evicted and handed to the caller
Add(f, sid) ==
    IF InCache(f)
    THEN [existing |-> CacheSid(f), cache |-> cache, evicted |-> <<>>]
    ELSE LET all == Append(cache, [fid |-> f, sid |-> sid])
             n   == Max(Len(all) - Capacity, 0)
         IN  [existing |-> 0,
              cache    |-> SubSeq(all, n + 1, Len(all)),
              evicted  |-> SubSeq(all, 1, n)]

\* Remove: the cache without the entry of f
Remove(f) == SelectSeq(cache, LAMBDA e : e.fid # f)

(***************************************************************************)
(* Threads                                                                 *)
(***************************************************************************)
\* what a Recover returned: the document, the sheet's value, the files then
NoLast == [fid |-> 0, sheet |-> NewMemSheet(0, 0), disk |-> NoDisk]

NoRet == [op |-> None, fid |-> 0, cid |-> 0, sid |-> 0, inCache |-> FALSE,
          disk0 |-> NoDisk, evicted |-> <<>>, committed |-> {},
          raced |-> FALSE, lost |-> FALSE, prev |-> NoLast]
NoChk == [op |-> None, fid |-> 0, full |-> FALSE, err |-> Ok, cid |-> 0,
          lid |-> 0]
NoCrash == [fid |-> 0, pc |-> None, disk0 |-> NoDisk,
            post |-> NewMemSheet(0, 0)]

IdleTh == [pc |-> "idle", fid |-> 0, sid |-> 0, curCid |-> 0, lid |-> 0,
           off |-> 0, entry |-> logCommitEntry, apRet |-> None,
           cmRet |-> None, ev |-> <<>>, disk0 |-> NoDisk, ops |-> <<>>,
           race |-> FALSE, last |-> NoLast, ret |-> NoRet]

\* positions inside commitOneSheetWithCache after its first DFS write call
CommitPcs == {"cmLock", "cmChkpCreate", "cmChkpWrite", "cmNewLog", "cmUnlock"}
InCommit(r) ==
    \/ r.pc \in CommitPcs
    \/ r.pc \in {"apStat", "apWrite"} /\ r.apRet = "commit"

\* the sheets something still refers to
Referenced(sid, c, thr) ==
    \/ \E i \in 1..Len(c) : c[i].sid = sid
    \/ \E t \in Threads :
          \/ thr[t].sid = sid
          \/ thr[t].ret.sid = sid
          \/ \E i \in 1..Len(thr[t].ev) : thr[t].ev[i].sid = sid

Collect(h, c, thr) ==
    [sid \in {x \in DOMAIN h : Referenced(x, c, thr)} |-> h[sid]]

NewSid == CHOOSE n \in 1..(Cardinality(DOMAIN heap) + 1) : n \notin DOMAIN heap

\* the memory side of a step: thread t continues as rec
Mem(t, rec, h, c) ==
    /\ th' = [th EXCEPT ![t] = rec]
    /\ cache' = c
    /\ heap' = Collect(h, c, th')

\* the same, when the entries of the documents F leave the cache: a thread
\* holding the result of a Recover of one of them is marked
MemLost(t, rec, h, c, F) ==
    /\ th' = [u \in Threads |->
                IF u = t THEN rec
                ELSE IF th[u].ret.op = "recover" /\ th[u].ret.fid \in F
                THEN [th[u] EXCEPT !.ret.lost = TRUE]
                ELSE th[u]]
    /\ cache' = c
    /\ heap' = Collect(h, c, th')

NumChkp(f) == Cardinality(DOMAIN chkpDir[f])
NumLog(f) == Cardinality(DOMAIN logDir[f])
LogsShort(f) == \A n \in DOMAIN logDir[f] : Len(logDir[f][n]) < MaxLogLen

\* CreateDocument: checkpoint/ empty, log/1 empty
Init ==
    /\ logDir = [f \in Fids |-> [n \in {1} |-> <<>>]]
    /\ chkpDir = [f \in Fids |-> NoDir]
    /\ heap = [s \in {} |-> 0]
    /\ cache = <<>>
    /\ th = [t \in Threads |-> IdleTh]
    /\ chkRes = NoChk
    /\ crashInfo = NoCrash
    /\ crashes = 0
    /\ freshCommit = {}
    /\ appended = [f \in Fids |-> NoDir]
    /\ faults = 0
    /\ lsRes = NoList
    /\ wr = NoWrite

(***************************************************************************)
(* appendOneSheetLog -> dao.FileAppend: Stat, then writeAll at that size   *)
(***************************************************************************)
\* the same, after a write to a file of document f: what the other threads
\* remember of an earlier Recover of f is no longer current
MemWrote(t, rec, h, c, f) ==
    /\ th' = [u \in Threads |->
                IF u = t THEN rec
                ELSE [th[u] EXCEPT
                        !.last = IF @.fid = f THEN NoLast ELSE @,
                        !.ret.prev = IF @.fid = f THEN NoLast ELSE @]]
    /\ cache' = c
    /\ heap' = Collect(h, c, th')

\* where a thread continues when appendOneSheetLog returns
AfterAppend(t, h, wrote) ==
    LET r == th[t]
        M(rec, hh) == IF wrote THEN MemWrote(t, rec, hh, cache, r.fid)
                      ELSE Mem(t, rec, hh, cache)
    IN  IF r.apRet = "commit"
        THEN M([r EXCEPT !.pc = "cmNewLog",
                         !.ops = IF r.pc = "apWrite"
                                 THEN Append(@, "logAppend") ELSE @], h)
        ELSE IF r.apRet = "msg"
        THEN M([IdleTh EXCEPT !.ret = [NoRet EXCEPT !.op = "msg",
                                                   !.fid = r.fid]],
               [h EXCEPT ![r.sid].locked = FALSE])
        ELSE M([IdleTh EXCEPT !.ret = [NoRet EXCEPT !.op = "append",
                                                   !.fid = r.fid]], h)

\* dfs.Stat of the log file; a failure is logged and swallowed
AppendStat(t) ==
    /\ th[t].pc = "apStat"
    /\ LET r == th[t]
       IN  IF r.lid \in DOMAIN logDir[r.fid]
           THEN Mem(t, [r EXCEPT !.pc = "apWrite",
                                 !.off = Len(logDir[r.fid][r.lid])],
                    heap, cache)
           ELSE AfterAppend(t, heap, FALSE)
    /\ UNCHANGED <<logDir, chkpDir, chkRes, crashInfo, crashes, freshCommit,
                   appended>>
    /\ UNCHANGED daoVars

\* writeAll(fd, off, json.Marshal(entry))
AppendWrite(t) ==
    /\ th[t].pc = "apWrite"
    /\ LET r == th[t]
       IN  /\ logDir' = [logDir EXCEPT ![r.fid][r.lid] =
                            writeAll(@, r.off, Marshal(r.entry))]
           /\ appended' = [appended EXCEPT ![r.fid] =
                              [n \in DOMAIN @ \cup {r.lid} |->
                                  IF n = r.lid
                                  THEN Append(Appended(r.fid, n), r.entry)
                                  ELSE @[n]]]
           /\ AfterAppend(t, heap, TRUE)
    /\ UNCHANGED <<chkpDir, chkRes, crashInfo, crashes, freshCommit>>
    /\ UNCHANGED daoVars

\* AppendLog(fid, lid, entry), called as a public operation
AppendLog(t, f, lid, m) ==
    /\ th[t].pc = "idle"
    /\ lid \in DOMAIN logDir[f] => Len(logDir[f][lid]) < MaxConcLog
    /\ Mem(t, [IdleTh EXCEPT !.pc = "apStat", !.fid = f, !.lid = lid,
                             !.entry = SheetLogPickle(lid, m[1], m[2], "", m[3]),
                             !.apRet = "api"],
           heap, cache)
    /\ chkRes' = NoChk
    /\ UNCHANGED <<logDir, chkpDir, crashInfo, crashes, freshCommit,
                   appended>>
    /\ UNCHANGED daoVars

\* SheetOnMessage: under the sheet lock, apply the mutation to the resident
\* sheet and record it in the active log, lid = C + 1
SheetOnMessage(t, f, m) ==
    /\ th[t].pc = "idle"
    /\ InCache(f)
    /\ ~heap[CacheSid(f)].locked
    /\ LogsShort(f)
    /\ LET sid == CacheSid(f)
           s   == heap[sid].sheet
           lid == NumChkp(f) + 1
           e   == SheetLogPickle(lid, m[1], m[2], Get(s, m[1], m[2]), m[3])
       IN  Mem(t, [IdleTh EXCEPT !.pc = "apStat", !.fid = f, !.sid = sid,
                                 !.lid = lid, !.entry = e, !.apRet = "msg"],
               [heap EXCEPT ![sid].locked = TRUE,
                            ![sid].sheet = SetCell(s, m[1], m[2], m[3])],
               cache)
    /\ chkRes' = NoChk
    /\ crashInfo' = NoCrash
    /\ UNCHANGED <<logDir, chkpDir, crashes, freshCommit,
                   appended>>
    /\ UNCHANGED daoVars

(***************************************************************************)
(* commitOneSheetWithCache                                                 *)
(***************************************************************************)
\* where a thread continues when commitOneSheetWithCache returns cid
CommitReturn(t, r, cid, h) ==
        IF r.cmRet = "recover"
        THEN Mem(t, [IdleTh EXCEPT !.pc = "recCommit", !.ev = r.ev,
                        !.ret = [r.ret EXCEPT !.committed = @ \cup {r.fid}]],
                 h, cache)
        ELSE Mem(t, [IdleTh EXCEPT !.ret = [NoRet EXCEPT !.op = "commit",
                        !.fid = r.fid, !.cid = cid, !.sid = r.sid,
                        !.disk0 = r.disk0]],
                 h, cache)

\* the call appendOneSheetLog(fid, lid, &logCommitEntry)
ToSeal(r) == [r EXCEPT !.pc = "apStat", !.entry = logCommitEntry,
                       !.apRet = "commit"]

\* Commit(fid, sheet) on the resident sheet
Commit(t, f) ==
    /\ th[t].pc = "idle"
    /\ InCache(f)
    /\ \A n \in DOMAIN logDir[f] : Len(logDir[f][n]) <= MaxLogLen
    /\ Mem(t, [IdleTh EXCEPT !.pc = "cmLock", !.fid = f, !.sid = CacheSid(f),
                             !.cmRet = "api"],
           heap, cache)
    /\ chkRes' = NoChk
    /\ crashInfo' = NoCrash
    /\ UNCHANGED <<logDir, chkpDir, crashes, freshCommit,
                   appended>>
    /\ UNCHANGED daoVars

\* memSheet.Lock(); curCid; the test of the active log
CommitLock(t) ==
    /\ th[t].pc = "cmLock"
    /\ ~heap[th[t].sid].locked
    /\ LET r      == th[t]
           curCid == sheetGetCheckPointNum(r.fid)
           l      == sheetGetPickledLogFromDfs(r.fid, curCid + 1)
           h      == [heap EXCEPT ![r.sid].locked = TRUE]
           r2     == [r EXCEPT !.curCid = curCid, !.lid = curCid + 1,
                               !.disk0 = DiskOf(r.fid)]
       IN  IF l.err # Ok /\ Len(l.logs) = 0
           THEN CommitReturn(t, r2, curCid, h)
           ELSE Mem(t, [r2 EXCEPT !.pc = "cmChkpCreate"], h, cache)
    /\ UNCHANGED <<logDir, chkpDir, chkRes, crashInfo, crashes, freshCommit,
                   appended>>
    /\ UNCHANGED daoVars

\* a commit that leaves the new checkpoint empty: the log is sealed right
\* after the checkpoint file is created
CommitChkpCreateNoWrite(t) ==
    /\ th[t].pc = "cmChkpCreate"
    /\ LET r == th[t]
           c == FileCreate(chkpDir[r.fid], r.curCid + 1)
           r2 == [r EXCEPT !.ops = Append(@, "chkpCreate")]
       IN  /\ chkpDir' = [chkpDir EXCEPT ![r.fid] = c.dir]
           /\ Mem(t, ToSeal(r2), heap, cache)
    /\ UNCHANGED <<logDir, chkRes, crashInfo, crashes, freshCommit,
                   appended>>
    /\ UNCHANGED daoVars

\* dao.FileCreate(checkpoint/cid); on failure the error is logged
CommitChkpCreate(t) ==
    /\ th[t].pc = "cmChkpCreate"
    /\ LET r == th[t]
           c == FileCreate(chkpDir[r.fid], r.curCid + 1)
           r2 == [r EXCEPT !.ops = Append(@, "chkpCreate")]
       IN  /\ chkpDir' = [chkpDir EXCEPT ![r.fid] = c.dir]
           /\ IF c.err = Ok
              THEN Mem(t, [r2 EXCEPT !.pc = "cmChkpWrite"], heap, cache)
              ELSE Mem(t, ToSeal(r2), heap, cache)
    /\ UNCHANGED <<logDir, chkRes, crashInfo, crashes, freshCommit,
                   appended>>
    /\ UNCHANGED daoVars

\* sheetWritePickledCheckPointToDfs(fid, cid, chkp)
CommitChkpWrite(t) ==
    /\ th[t].pc = "cmChkpWrite"
    /\ LET r    == th[t]
           cid  == r.curCid + 1
           s    == heap[r.sid].sheet
           chkp == SheetCheckPointPickle(cid, Shape(s)[1], Shape(s)[2],
                                         ToStringSlice(s))
           w    == FileOverwriteAll(chkpDir[r.fid], cid, Marshal(chkp))
       IN  /\ chkpDir' = [chkpDir EXCEPT ![r.fid] = w.dir]
           /\ freshCommit' = IF cid = 1 /\ heap[r.sid].fresh
                             THEN freshCommit \cup {r.fid} ELSE freshCommit
           /\ Mem(t, ToSeal([r EXCEPT !.ops = Append(@, "chkpWrite")]),
                  heap, cache)
    /\ UNCHANGED <<logDir, chkRes, crashInfo, crashes, appended>>
    /\ UNCHANGED daoVars

\* a commit that creates no successor log: it creates log lid again
CommitNewLogSameLid(t) ==
    /\ th[t].pc = "cmNewLog"
    /\ LET r == th[t]
           c == FileCreate(logDir[r.fid], r.lid)
       IN  /\ logDir' = [logDir EXCEPT ![r.fid] = c.dir]
           /\ Mem(t, [r EXCEPT !.pc = "cmUnlock",
                               !.ops = Append(@, "logCreate")], heap, cache)
    /\ UNCHANGED <<chkpDir, chkRes, crashInfo, crashes, freshCommit,
                   appended>>
    /\ UNCHANGED daoVars

\* sheetCreateLogFile(fid, lid + 1); on failure the error is logged
CommitNewLog(t) ==
    /\ th[t].pc = "cmNewLog"
    /\ LET r == th[t]
           c == FileCreate(logDir[r.fid], r.lid + 1)
       IN  /\ logDir' = [logDir EXCEPT ![r.fid] = c.dir]
           /\ Mem(t, [r EXCEPT !.pc = "cmUnlock",
                               !.ops = Append(@, "logCreate")], heap, cache)
    /\ UNCHANGED <<chkpDir, chkRes, crashInfo, crashes, freshCommit,
                   appended>>
    /\ UNCHANGED daoVars

\* memSheet.Unlock(); return cid
CommitUnlock(t) ==
    /\ th[t].pc = "cmUnlock"
    /\ CommitReturn(t, th[t], th[t].curCid + 1,
                    [heap EXCEPT ![th[t].sid].locked = FALSE])
    /\ UNCHANGED <<logDir, chkpDir, chkRes, crashInfo, crashes, freshCommit,
                   appended>>
    /\ UNCHANGED daoVars

(***************************************************************************)
(* recoverSheetFromLog                                                     *)
(***************************************************************************)
\* thread u is inside recoverSheetFromLog(f)
MidRecover(u, f) ==
    \/ th[u].pc = "recAdd" /\ th[u].fid = f
    \/ th[u].pc = "recCommit" /\ th[u].ret.fid = f

IsFresh(f) ==
    NumChkp(f) = 0 /\ DOMAIN logDir[f] = {1} /\ logDir[f][1] = <<>>

\* curCid, the checkpoint, the redo of the log: the sheet built
Recover(t, f) ==
    /\ th[t].pc = "idle"
    /\ LET b   == recoverBuild(f)
           sid == NewSid
           h   == [x \in DOMAIN heap \cup {sid} |->
                      IF x = sid
                      THEN [fid |-> f, sheet |-> b.sheet, locked |-> FALSE,
                            fresh |-> IsFresh(f)]
                      ELSE heap[x]]
           last == IF th[t].last.fid = f THEN th[t].last ELSE NoLast
       IN  IF b.err # Ok
           THEN Mem(t, [IdleTh EXCEPT !.ret = [NoRet EXCEPT !.op = "recover",
                                                           !.fid = f,
                                                           !.prev = last]],
                    heap, cache)
           ELSE Mem(t, [IdleTh EXCEPT !.pc = "recAdd", !.fid = f, !.sid = sid,
                           !.last = last,
                           !.race = \E u \in Threads \ {t} : MidRecover(u, f)],
                    h, cache)
    /\ UNCHANGED chkRes
    /\ UNCHANGED <<logDir, chkpDir, crashInfo, crashes, freshCommit,
                   appended>>
    /\ UNCHANGED daoVars

\* a Recover that returns the sheet it built even when the cache already
\* holds one for the document
RecoverAddOwn(t) ==
    /\ th[t].pc = "recAdd"
    /\ LET r == th[t]
           a == Add(r.fid, r.sid)
           keys == [i \in 1..Len(a.evicted) |-> a.evicted[i].fid]
           ret == [NoRet EXCEPT !.op = "recover", !.fid = r.fid,
                                !.evicted = keys, !.prev = r.last,
                                !.raced = r.race \/ \E u \in Threads \ {t} :
                                                       MidRecover(u, r.fid)]
           gone == {keys[i] : i \in 1..Len(keys)}
       IN  IF a.existing # 0
           THEN MemLost(t, [IdleTh EXCEPT !.pc = "recCommit",
                               !.ev = a.evicted,
                               !.ret = [ret EXCEPT !.sid = r.sid,
                                                   !.inCache = TRUE]],
                        heap, a.cache, gone)
           ELSE MemLost(t, [IdleTh EXCEPT !.ret = [ret EXCEPT !.sid = r.sid],
                               !.last = [fid |-> r.fid,
                                         sheet |-> heap[r.sid].sheet,
                                         disk |-> DiskOf(r.fid)]],
                        heap, a.cache, gone)
    /\ UNCHANGED <<logDir, chkpDir, chkRes, crashInfo, crashes, freshCommit,
                   appended>>
    /\ UNCHANGED daoVars

\* getSheetCache().Add(fid, memSheet) and the branch on its first result
RecoverAdd(t) ==
    /\ th[t].pc = "recAdd"
    /\ LET r == th[t]
           a == Add(r.fid, r.sid)
           keys == [i \in 1..Len(a.evicted) |-> a.evicted[i].fid]
           ret == [NoRet EXCEPT !.op = "recover", !.fid = r.fid,
                                !.evicted = keys, !.prev = r.last,
                                !.raced = r.race \/ \E u \in Threads \ {t} :
                                                       MidRecover(u, r.fid)]
           gone == {keys[i] : i \in 1..Len(keys)}
       IN  IF a.existing # 0
           THEN MemLost(t, [IdleTh EXCEPT !.pc = "recCommit",
                               !.ev = a.evicted,
                               !.ret = [ret EXCEPT !.sid = a.existing,
                                                   !.inCache = TRUE]],
                        heap, a.cache, gone)
           ELSE MemLost(t, [IdleTh EXCEPT !.ret = [ret EXCEPT !.sid = r.sid],
                               !.last = [fid |-> r.fid,
                                         sheet |-> heap[r.sid].sheet,
                                         disk |-> DiskOf(r.fid)]],
                        heap, a.cache, gone)
    /\ UNCHANGED <<logDir, chkpDir, chkRes, crashInfo, crashes, freshCommit,
                   appended>>
    /\ UNCHANGED daoVars

\* commitSheetsWithCache: the next evicted sheet, or the return of ms
RecoverCommitEvicted(t) ==
    /\ th[t].pc = "recCommit"
    /\ LET r == th[t]
       IN  IF r.ev = <<>>
           THEN Mem(t, [IdleTh EXCEPT !.ret = r.ret,
                           !.last = [fid |-> r.ret.fid,
                                     sheet |-> heap[r.ret.sid].sheet,
                                     disk |-> DiskOf(r.ret.fid)]],
                    heap, cache)
           ELSE Mem(t, [IdleTh EXCEPT !.pc = "cmLock", !.fid = Head(r.ev).fid,
                           !.sid = Head(r.ev).sid, !.cmRet = "recover",
                           !.ev = Tail(r.ev), !.ret = r.ret],
                    heap, cache)
    /\ UNCHANGED <<logDir, chkpDir, chkRes, crashInfo, crashes, freshCommit,
                   appended>>
    /\ UNCHANGED daoVars

(***************************************************************************)
(* Check, Remove, crash                                                    *)
(***************************************************************************)
Check(t, f, fullChk) ==
    /\ th[t].pc = "idle"
    /\ LET c == SheetFSCheck(f, fullChk)
       IN  chkRes' = [op |-> "check", fid |-> f, full |-> fullChk,
                      err |-> c.err, cid |-> c.cid, lid |-> c.lid]
    /\ chkRes' # chkRes
    /\ UNCHANGED <<logDir, chkpDir, heap, cache, th, crashInfo, crashes,
                   freshCommit, appended>>
    /\ UNCHANGED daoVars

\* the last session of f leaves: the sheet is taken out of the cache
CacheRemove(t, f) ==
    /\ th[t].pc = "idle"
    /\ InCache(f)
    /\ MemLost(t, [IdleTh EXCEPT !.last = th[t].last], heap, Remove(f), {f})
    /\ chkRes' = NoChk
    /\ UNCHANGED <<logDir, chkpDir, crashInfo, crashes, freshCommit,
                   appended>>
    /\ UNCHANGED daoVars

\* the process dies: memory is lost, the files stay
Crash ==
    /\ crashes < MaxCrashes
    /\ crashes' = crashes + 1
    /\ crashInfo' =
          IF \E t \in Threads : InCommit(th[t]) /\ th[t].pc # "cmLock"
          THEN LET t == CHOOSE x \in Threads :
                           InCommit(th[x]) /\ th[x].pc # "cmLock"
               IN  [fid |-> th[t].fid, pc |-> th[t].pc,
                    disk0 |-> th[t].disk0, post |-> heap[th[t].sid].sheet]
          ELSE NoCrash
    /\ th' = [t \in Threads |-> IdleTh]
    /\ cache' = <<>>
    /\ heap' = [s \in {} |-> 0]
    /\ chkRes' = NoChk
    /\ UNCHANGED <<logDir, chkpDir, freshCommit, appended>>
    /\ UNCHANGED daoVars

(***************************************************************************)
(* Specifications                                                          *)
(***************************************************************************)
\* the calls and steps of thread t on the documents of F, with mutations M
Steps(t, F, M) ==
    \/ \E f \in F, m \in M : SheetOnMessage(t, f, m)
    \/ AppendStat(t)
    \/ AppendWrite(t)
    \/ \E f \in F : Commit(t, f)
    \/ CommitLock(t)
    \/ CommitChkpCreate(t)
    \/ CommitChkpWrite(t)
    \/ CommitNewLog(t)
    \/ CommitUnlock(t)
    \/ \E f \in F : Recover(t, f)
    \/ RecoverAdd(t)
    \/ RecoverCommitEvicted(t)
    \/ \E f \in F : CacheRemove(t, f)

\* one document, served by one thread; the server may crash and be checked
Next ==
    \/ Steps(1, {1}, Muts)
    \/ \E fullChk \in BOOLEAN : Check(1, 1, fullChk)
    \/ Crash

Spec == Init /\ [][Next]_vars

\* two documents competing for the cache, served by one thread
NextCache == Steps(1, Fids, {<<1, 1, "a">>})

SpecCache == Init /\ [][NextCache]_vars

\* two threads on one document: concurrent AppendLog and Recover calls
\* the entries the concurrent appenders write
ConcMuts == {<<1, 1, "a">>, <<11, 2, "b">>}

NextConc ==
    \E t \in Threads :
        \/ \E m \in ConcMuts : AppendLog(t, 1, 1, m)
        \/ AppendStat(t)
        \/ AppendWrite(t)
        \/ Recover(t, 1)
        \/ RecoverAdd(t)
        \/ RecoverCommitEvicted(t)
        \/ CacheRemove(t, 1)

SpecConc == Init /\ [][NextConc]_vars

(***************************************************************************)
(* commitOneSheetWithCache when a call to the file store fails             *)
(***************************************************************************)
\* one more call to the file store returns an error
CallFails ==
    /\ faults < MaxFaults
    /\ faults' = faults + 1
    /\ UNCHANGED <<lsRes, wr, chkRes, crashInfo, crashes, freshCommit,
                   appended>>

\* memSheet.Lock(); dao.FileGetAll of the active log fails: err != nil and
\* logs is nil, so the function returns curCid, the lock still held
CommitLockFail(t) ==
    /\ th[t].pc = "cmLock"
    /\ ~heap[th[t].sid].locked
    /\ LET r      == th[t]
           curCid == sheetGetCheckPointNum(r.fid)
           h      == [heap EXCEPT ![r.sid].locked = TRUE]
           r2     == [r EXCEPT !.curCid = curCid, !.lid = curCid + 1,
                               !.disk0 = DiskOf(r.fid)]
       IN  CommitReturn(t, r2, curCid, h)
    /\ UNCHANGED <<logDir, chkpDir>>
    /\ CallFails

\* dfs.Create of checkpoint/cid fails: the error is logged, the commit
\* marker is appended next
CommitChkpCreateFail(t) ==
    /\ th[t].pc = "cmChkpCreate"
    /\ Mem(t, ToSeal(th[t]), heap, cache)
    /\ UNCHANGED <<logDir, chkpDir>>
    /\ CallFails

\* dao.FileOverwriteAll of checkpoint/cid fails: the file stays as created
CommitChkpWriteFail(t) ==
    /\ th[t].pc = "cmChkpWrite"
    /\ Mem(t, ToSeal(th[t]), heap, cache)
    /\ UNCHANGED <<logDir, chkpDir>>
    /\ CallFails

\* dao.FileAppend fails at dfs.Stat: appendOneSheetLog logs the error and
\* returns, nothing is written
AppendFail(t) ==
    /\ th[t].pc = "apStat"
    /\ AfterAppend(t, heap, FALSE)
    /\ UNCHANGED <<logDir, chkpDir>>
    /\ CallFails

\* dfs.Create of log/lid+1 fails: the error is logged
CommitNewLogFail(t) ==
    /\ th[t].pc = "cmNewLog"
    /\ Mem(t, [th[t] EXCEPT !.pc = "cmUnlock"], heap, cache)
    /\ UNCHANGED <<logDir, chkpDir>>
    /\ CallFails

\* one document, one thread, and calls to the file store that may fail
NextFail ==
    \/ Steps(1, {1}, Muts)
    \/ CommitLockFail(1)
    \/ CommitChkpCreateFail(1)
    \/ CommitChkpWriteFail(1)
    \/ AppendFail(1)
    \/ CommitNewLogFail(1)

SpecFail == Init /\ [][NextFail]_vars

(***************************************************************************)
(* SheetFSCheck and DirFilenamesAllSorted on documents of any size         *)
(***************************************************************************)
\* the mutation every log of such a document records
EntryOf(k) == SheetLogPickle(k, 1, 1, "", "a")

\* log/1 .. log/C sealed, log/C+1 active: empty, or holding one mutation
ConsistentLogs(C, dirty) ==
    [k \in 1..(C + 1) |->
        IF k <= C THEN <<EntryOf(k), logCommitEntry>>
        ELSE IF dirty THEN <<EntryOf(k)>> ELSE <<>>]

\* checkpoint/1 .. checkpoint/C, each the sheet with that one cell set
ConsistentChkps(C) ==
    [k \in 1..C |->
        Marshal(SheetCheckPointPickle(k, minRows, minCols,
            ToStringSlice(SetCell(NewMemSheet(minRows, minCols), 1, 1, "a"))))]

InitCheck ==
    /\ \E C \in 0..MaxCkpt, dirty \in BOOLEAN :
          /\ logDir = [f \in Fids |-> IF f = 1 THEN ConsistentLogs(C, dirty)
                                      ELSE [n \in {1} |-> <<>>]]
          /\ chkpDir = [f \in Fids |-> IF f = 1 THEN ConsistentChkps(C)
                                       ELSE NoDir]
    /\ heap = [s \in {} |-> 0]
    /\ cache = <<>>
    /\ th = [t \in Threads |-> IdleTh]
    /\ chkRes = NoChk
    /\ crashInfo = NoCrash
    /\ crashes = 0
    /\ freshCommit = {}
    /\ appended = [f \in Fids |-> NoDir]
    /\ faults = 0
    /\ lsRes = NoList
    /\ wr = NoWrite

\* a directory without the file name
Without(dir, name) == [n \in DOMAIN dir \ {name} |-> dir[n]]

\* what every fault leaves alone
Fault ==
    /\ faults < MaxFaults
    /\ faults' = faults + 1
    /\ chkRes' = NoChk
    /\ lsRes' = NoList
    /\ UNCHANGED <<heap, cache, th, crashInfo, crashes, freshCommit,
                   appended, wr>>

\* sheetDeleteLogFile(fid, lid): log/k is gone
LoseLog(f, k) ==
    /\ k \in DOMAIN logDir[f]
    /\ logDir' = [logDir EXCEPT ![f] = Without(@, k)]
    /\ UNCHANGED chkpDir
    /\ Fault

\* sheetDeleteCheckPointFile(fid, cid): checkpoint/k is gone
LoseChkp(f, k) ==
    /\ k \in DOMAIN chkpDir[f]
    /\ chkpDir' = [chkpDir EXCEPT ![f] = Without(@, k)]
    /\ UNCHANGED logDir
    /\ Fault

\* log/k without its last entry: the server died before appending it
TornLog(f, k) ==
    /\ k \in DOMAIN logDir[f]
    /\ logDir[f][k] # <<>>
    /\ logDir' = [logDir EXCEPT ![f][k] = SubSeq(@, 1, Len(@) - 1)]
    /\ UNCHANGED chkpDir
    /\ Fault

\* entries that do not belong in log/k: wrong lid, row < 1, col < 1
BadEntries(k) ==
    {SheetLogPickle(k + 1, 1, 1, "", "a"),
     SheetLogPickle(k, 0, 1, "", "a"),
     SheetLogPickle(k, 1, 0, "", "a")}

\* the first mutation of log/k was written with fields that do not belong
BadEntry(f, k, e) ==
    /\ k \in DOMAIN logDir[f]
    /\ logDir[f][k] # <<>>
    /\ logDir[f][k][1] # logCommitEntry
    /\ logDir' = [logDir EXCEPT ![f][k][1] = e]
    /\ UNCHANGED chkpDir
    /\ Fault

\* dao.DirFilenamesAllSorted on one of the two directories of f
ListDir(f, d) ==
    /\ LET dir == IF d = "log" THEN logDir[f] ELSE chkpDir[f]
       IN  lsRes' = [op |-> "list", dir |-> dir,
                     names |-> DirFilenamesAllSorted(dir)]
    /\ lsRes' # lsRes
    /\ chkRes' = NoChk
    /\ UNCHANGED <<logDir, chkpDir, heap, cache, th, crashInfo, crashes,
                   freshCommit, appended, faults, wr>>

NextCheck ==
    \/ \E k \in 1..(MaxCkpt + 1) : LoseLog(1, k)
    \/ \E k \in 1..MaxCkpt : LoseChkp(1, k)
    \/ \E k \in 1..(MaxCkpt + 1) : TornLog(1, k)
    \/ \E k \in 1..(MaxCkpt + 1) : \E e \in BadEntries(k) : BadEntry(1, k, e)
    \/ \E fullChk \in BOOLEAN : Check(1, 1, fullChk)
    \/ \E d \in {"log", "checkpoint"} : ListDir(1, d)

SpecCheck == InitCheck /\ [][NextCheck]_vars

(***************************************************************************)
(* writeAll against a store that accepts part of what it is offered        *)
(***************************************************************************)
\* contents of up to MaxContent bytes, files of up to MaxFile bytes
Contents == UNION {[1..n -> {"a", "b"}] : n \in 0..MaxContent}
Files == {[i \in 1..n |-> "x"] : n \in 0..MaxFile}

\* writeAll(fd, off, content) is entered: toWrite := len(content)
InitWrite ==
    /\ \E f \in Files, c \in Contents, o \in 0..MaxFile :
          /\ o <= Len(f)
          /\ wr = [pc |-> "loop", file |-> f, file0 |-> f, content |-> c,
                   off0 |-> o, off |-> o, toWrite |-> Len(c),
                   short |-> FALSE]
    /\ logDir = [f \in Fids |-> [n \in {1} |-> <<>>]]
    /\ chkpDir = [f \in Fids |-> NoDir]
    /\ heap = [s \in {} |-> 0]
    /\ cache = <<>>
    /\ th = [t \in Threads |-> IdleTh]
    /\ chkRes = NoChk
    /\ crashInfo = NoCrash
    /\ crashes = 0
    /\ freshCommit = {}
    /\ appended = [f \in Fids |-> NoDir]
    /\ faults = 0
    /\ lsRes = NoList

\* what a step of writeAll leaves alone
OnlyWrite ==
    UNCHANGED <<logDir, chkpDir, heap, cache, th, chkRes, crashInfo, crashes,
                freshCommit, appended, faults, lsRes>>

\* n, err := dfs.Write(fd, off, content[:toWrite]) with err == nil: the store
\* takes the first n bytes of the buffer; toWrite -= n; off += n
writeAllStep(n) ==
    /\ wr.pc = "loop"
    /\ wr.toWrite > 0
    /\ n \in 1..wr.toWrite
    /\ LET buf == SubSeq(wr.content, 1, wr.toWrite)
       IN  wr' = [wr EXCEPT !.file = Write(@, wr.off, SubSeq(buf, 1, n)),
                            !.toWrite = @ - n,
                            !.off = @ + n,
                            !.short = @ \/ n < wr.toWrite]
    /\ OnlyWrite

\* dfs.Write returns an error: return err
writeAllFail ==
    /\ wr.pc = "loop"
    /\ wr.toWrite > 0
    /\ wr' = [wr EXCEPT !.pc = "err"]
    /\ OnlyWrite

\* the loop ends with toWrite = 0: return nil
writeAllReturn ==
    /\ wr.pc = "loop"
    /\ wr.toWrite = 0
    /\ wr' = [wr EXCEPT !.pc = "ok"]
    /\ OnlyWrite

NextWrite ==
    \/ \E n \in 1..MaxContent : writeAllStep(n)
    \/ writeAllFail
    \/ writeAllReturn

SpecWrite == InitWrite /\ [][NextWrite]_vars

(***************************************************************************)
(* What the specification expects of a document on disk                    *)
(***************************************************************************)
Sealed(log) == log # <<>> /\ log[Len(log)] = logCommitEntry

\* a log without its trailing commit marker
Unsealed(log) == IF Sealed(log) THEN SubSeq(log, 1, Len(log) - 1) ELSE log

\* section 4.3.3: checkpoint C = |checkpoint/| and every entry of log C + 1
\* except the trailing commit marker
ExpectedSheet(disk) ==
    LET C    == Cardinality(DOMAIN disk.chkp)
        base == IF C = 0 THEN NewMemSheet(minRows, minCols)
                ELSE NewMemSheetFromStringSlice(disk.chkp[C][1].content,
                                                disk.chkp[C][1].columns)
        log  == Unsealed(disk.log[C + 1])
    IN  Redo(base, log, Len(log))

\* the crash points of a commit: after each of its DFS calls
CrashPcs == {"cmChkpWrite", "apStat", "apWrite", "cmNewLog", "cmUnlock"}

Quiescent == \A t \in Threads : ~InCommit(th[t])

(***************************************************************************)
(* C1: with no crash, in every state with no Commit in progress every      *)
(* document has one log file more than it has checkpoint files, L = C + 1. *)
(***************************************************************************)
C1_CheckpointLogInvariant ==
    (crashes = 0 /\ Quiescent) =>
        \A f \in Fids : NumLog(f) = NumChkp(f) + 1

\* a commit of logged mutations has returned: C = 1, L = 2
C1_Witness ==
    /\ crashes = 0
    /\ Quiescent
    /\ th[1].ret.op = "commit"
    /\ th[1].ret.disk0.log[1] # <<>>
    /\ NumChkp(1) = 1
    /\ NumLog(1) = 2

(***************************************************************************)
(* C2: after a crash that follows any single DFS call of a Commit on a     *)
(* document with L = C + 1 and a non-empty active log, Check(fid,          *)
(* thorough) succeeds and returns (C', L') with L' = C' + 1.               *)
(***************************************************************************)
C2_CheckAfterCrash ==
    LET d == crashInfo.disk0
        C == Cardinality(DOMAIN d.chkp)
    IN  ( /\ chkRes.op = "check"
          /\ chkRes.full
          /\ chkRes.fid = crashInfo.fid
          /\ crashInfo.pc \in CrashPcs
          /\ Cardinality(DOMAIN d.log) = C + 1
          /\ d.log[C + 1] # <<>> )
        => (chkRes.err = Ok /\ chkRes.lid = chkRes.cid + 1)

(***************************************************************************)
(* C3: after a crash that follows any single DFS call of a Commit, the     *)
(* sheet that Recover builds for the checked document equals the sheet     *)
(* before the commit (last checkpoint plus all logged mutations) or the    *)
(* sheet the commit was persisting, and Recover does not fail.             *)
(***************************************************************************)
C3_NoTornState ==
    \A t \in Threads :
        ( /\ crashInfo.pc \in CrashPcs
          /\ chkRes.op = "check"
          /\ chkRes.fid = crashInfo.fid )
        => /\ (th[t].pc = "recAdd" /\ th[t].fid = crashInfo.fid)
                 => heap[th[t].sid].sheet \in
                       {ExpectedSheet(crashInfo.disk0), crashInfo.post}
           /\ (th[t].ret.op = "recover" /\ th[t].ret.fid = crashInfo.fid)
                 => th[t].ret.sid # 0

(***************************************************************************)
(* C4: a commit issues its DFS writes in the order checkpoint create,      *)
(* checkpoint write, commit-marker append, next-log create; so on disk, at *)
(* every moment of a run without crash, a log that has a successor is      *)
(* sealed and a sealed log has its checkpoint completely written.          *)
(***************************************************************************)
OpRank(op) ==
    CASE op = "chkpCreate" -> 1
      [] op = "chkpWrite"  -> 2
      [] op = "logAppend"  -> 3
      [] op = "logCreate"  -> 4

OpsInOrder(ops) ==
    /\ \A i, j \in 1..Len(ops) : i < j => OpRank(ops[i]) < OpRank(ops[j])
    /\ ops # <<>> => ops[1] = "chkpCreate"
    /\ \A i \in 1..Len(ops) :
          ops[i] = "logCreate" => i > 1 /\ ops[i - 1] = "logAppend"

C5_NoOpCommit ==
    \A t \in Threads :
        LET r == th[t].ret
            C == Cardinality(DOMAIN r.disk0.chkp)
        IN  ( /\ th[t].pc = "idle"
              /\ r.op = "commit"
              /\ (C + 1) \in DOMAIN r.disk0.log
              /\ r.disk0.log[C + 1] = <<>> )
            => (r.cid = C /\ DiskOf(r.fid) = r.disk0)

(***************************************************************************)
(* C6: the sheet Recover builds is checkpoint C with every entry of        *)
(* log/C+1 applied in append order, except a trailing commit marker; the   *)
(* last mutation of an unsealed log is applied too.                        *)
(***************************************************************************)
C6_RecoverReplaysAll ==
    \A t \in Threads :
        th[t].pc = "recAdd" =>
            heap[th[t].sid].sheet = ExpectedSheet(DiskOf(th[t].fid))

(***************************************************************************)
(* C7: mutations applied to the empty sheet of a fresh document, each      *)
(* logged, then one Commit: a Recover with the sheet out of the cache      *)
(* builds a sheet with the rows, cols and content of checkpoint/1, the     *)
(* sheet that was committed.                                               *)
(***************************************************************************)
\* checkpoint/1 written from a sheet born empty, log/1 = M then one marker,
\* log/2 empty
CommittedOnce(f) ==
    /\ f \in freshCommit
    /\ DOMAIN chkpDir[f] = {1}
    /\ DOMAIN logDir[f] = {1, 2}
    /\ logDir[f][2] = <<>>
    /\ Sealed(logDir[f][1])
    /\ \A i \in 1..(Len(logDir[f][1]) - 1) : logDir[f][1][i] # logCommitEntry

C7_ReplayEquivalence ==
    \A t \in Threads :
        (th[t].pc = "recAdd" /\ CommittedOnce(th[t].fid) /\ ~InCache(th[t].fid))
        => LET s == heap[th[t].sid].sheet
               c == chkpDir[th[t].fid][1][1]
           IN  /\ s.rows = c.rows
               /\ s.cols = c.columns
               /\ ToStringSlice(s) = c.content

\* two mutations of one cell, the first growing the grid, were committed
\* and recovered
C7_Witness ==
    /\ th[1].pc = "recAdd"
    /\ CommittedOnce(1)
    /\ ~InCache(1)
    /\ Len(logDir[1][1]) = 3
    /\ heap[th[1].sid].sheet.rows = 11
    /\ Get(heap[th[1].sid].sheet, 11, 2) = "b"

(***************************************************************************)
(* C8: when Recover returns, every sheet its admission evicted has been    *)
(* committed: for an evicted document whose active log holds mutations,    *)
(* commitOneSheetWithCache has run.                                        *)
(***************************************************************************)
ActiveLogDirty(f) ==
    /\ (NumChkp(f) + 1) \in DOMAIN logDir[f]
    /\ Unsealed(logDir[f][NumChkp(f) + 1]) # <<>>

C8_CommitOnEvict ==
    \A t \in Threads :
        (th[t].pc = "idle" /\ th[t].ret.op = "recover")
        => \A i \in 1..Len(th[t].ret.evicted) :
              ActiveLogDirty(th[t].ret.evicted[i])
                  => th[t].ret.evicted[i] \in th[t].ret.committed

(***************************************************************************)
(* C9: once all append calls have returned, every log file holds exactly   *)
(* the entries whose append succeeded, each once.                          *)
(***************************************************************************)
Count(seq, x) == Cardinality({i \in 1..Len(seq) : seq[i] = x})

SameEntries(a, b) ==
    /\ Len(a) = Len(b)
    /\ \A i \in 1..Len(a) : Count(a, a[i]) = Count(b, a[i])

C9_AtomicAppends ==
    (\A t \in Threads : th[t].pc = "idle")
    => \A f \in Fids : \A lid \in DOMAIN logDir[f] :
          SameEntries(logDir[f][lid], Appended(f, lid))

(***************************************************************************)
(* C10 as claimed: two Recover calls for the same document that overlap    *)
(* return the same sheet, the one the cache holds; no other sheet of the   *)
(* document is left resident.                                              *)
(***************************************************************************)
BothRecovered(t, u) ==
    /\ t # u
    /\ th[t].pc = "idle" /\ th[u].pc = "idle"
    /\ th[t].ret.op = "recover" /\ th[u].ret.op = "recover"
    /\ th[t].ret.fid = th[u].ret.fid
    /\ th[t].ret.raced \/ th[u].ret.raced

SameResident(t, u) ==
    /\ th[t].ret.sid = th[u].ret.sid
    /\ th[t].ret.sid # 0
    /\ InCache(th[t].ret.fid)
    /\ CacheSid(th[t].ret.fid) = th[t].ret.sid
    /\ \A sid \in DOMAIN heap :
          heap[sid].fid = th[t].ret.fid => sid = th[t].ret.sid

C10_AdmissionRace_Claimed ==
    \A t, u \in Threads : BothRecovered(t, u) => SameResident(t, u)

(***************************************************************************)
(* C10 amended: the same, provided the entry of the document has not left  *)
(* the cache (Remove, eviction) since the first of the two calls got its   *)
(* result from Add.                                                        *)
(***************************************************************************)
C10_AdmissionRace ==
    \A t, u \in Threads :
        (BothRecovered(t, u) /\ ~th[t].ret.lost /\ ~th[u].ret.lost)
        => SameResident(t, u)

\* both calls had built a sheet before either reached Add
C10_Witness ==
    /\ th[1].pc = "idle" /\ th[2].pc = "idle"
    /\ th[1].ret.op = "recover" /\ th[2].ret.op = "recover"
    /\ th[1].ret.raced /\ th[2].ret.raced
    /\ ~th[1].ret.lost /\ ~th[2].ret.lost
    /\ th[1].ret.inCache # th[2].ret.inCache
    /\ logDir[1][1] # <<>>

(***************************************************************************)
(* C11: a Recover of a document that follows another Recover of it, with   *)
(* no AppendLog and no Commit in between, returns a sheet with the same    *)
(* rows, cols and content, and leaves the files of the document as they    *)
(* were.                                                                   *)
(***************************************************************************)
C11_RecoverIdempotent ==
    \A t \in Threads :
        LET r == th[t].ret
        IN  (th[t].pc = "idle" /\ r.op = "recover" /\ r.prev.fid = r.fid)
            => /\ r.sid # 0
               /\ Shape(heap[r.sid].sheet) = Shape(r.prev.sheet)
               /\ ToStringSlice(heap[r.sid].sheet) = ToStringSlice(r.prev.sheet)
               /\ DiskOf(r.fid) = r.prev.disk

(***************************************************************************)
(* Documents as section 3 describes them                                   *)
(***************************************************************************)
Dense(S) == S = 1..Cardinality(S)

ValidChkp(f, k) ==
    LET r == PickleSheetCheckPointFromContent(chkpDir[f][k])
    IN  r.err = Ok /\ r.chkp.cid = k /\ r.chkp.rows > 0 /\ r.chkp.columns > 0

\* log/k decodes and holds an entry, other than a terminating commit
\* marker, with lid # k, row < 1 or col < 1
HasBadEntry(f, k) ==
    LET r == PickleSheetLogsFromContent(logDir[f][k])
    IN  /\ r.err = Ok
        /\ \E i \in 1..Len(r.logs) :
              /\ ~(i = Len(r.logs) /\ r.logs[i] = logCommitEntry)
              /\ \/ r.logs[i].lid # k
                 \/ r.logs[i].row < 1
                 \/ r.logs[i].col < 1

\* checkpoints 1..C valid, logs 1..C+1 decodable with valid entries, every
\* log below C + 1 sealed
ConsistentDoc(f) ==
    LET C == NumChkp(f)
    IN  /\ DOMAIN chkpDir[f] = 1..C
        /\ \A k \in 1..C : ValidChkp(f, k)
        /\ DOMAIN logDir[f] = 1..(C + 1)
        /\ \A k \in 1..(C + 1) :
              /\ PickleSheetLogsFromContent(logDir[f][k]).err = Ok
              /\ ~HasBadEntry(f, k)
        /\ \A k \in 1..C : Sealed(logDir[f][k])

(***************************************************************************)
(* C12: when the names in log/ or in checkpoint/ are not exactly 1..N,     *)
(* Check, brief or thorough, returns Unrecoverable and no (C, L) pair.     *)
(***************************************************************************)
C12_DenseNumbering ==
    ( /\ chkRes.op = "check"
      /\ \/ ~Dense(DOMAIN logDir[chkRes.fid])
         \/ ~Dense(DOMAIN chkpDir[chkRes.fid]) )
    => (chkRes.err = Unrecoverable /\ chkRes.cid = 0 /\ chkRes.lid = 0)

\* log/ holds 1 and 3 but not 2, and the brief check has rejected it
C12_Witness ==
    /\ chkRes.op = "check"
    /\ ~chkRes.full
    /\ DOMAIN logDir[1] = {1, 3}
    /\ chkRes.err = Unrecoverable

(***************************************************************************)
(* C13: for a consistent document with C checkpoints, C >= 9 and the       *)
(* fresh document included, Check in either mode returns (C, C + 1) and    *)
(* no error.                                                               *)
(***************************************************************************)
C13_CheckAcceptsConsistent ==
    (chkRes.op = "check" /\ ConsistentDoc(chkRes.fid))
    => /\ chkRes.err = Ok
       /\ chkRes.cid = NumChkp(chkRes.fid)
       /\ chkRes.lid = NumChkp(chkRes.fid) + 1

(***************************************************************************)
(* C14: Check seals the last log: after a Check of an otherwise consistent *)
(* document whose last log holds mutations, that log ends with a commit    *)
(* marker and the check has succeeded; whenever Check succeeds the last    *)
(* log ends with exactly one marker; in thorough mode an unsealed log      *)
(* below the last one yields Unrecoverable.                                *)
(***************************************************************************)
C14_CheckSealsLastLog ==
    chkRes.op = "check" =>
        LET f == chkRes.fid
            L == NumLog(f)
        IN  /\ (ConsistentDoc(f) /\ logDir[f][L] # <<>>)
                  => (chkRes.err = Ok /\ Sealed(logDir[f][L]))
            /\ chkRes.err = Ok
                  => /\ Sealed(logDir[f][L])
                     /\ ~Sealed(Unsealed(logDir[f][L]))
            /\ ( /\ chkRes.full
                 /\ \E k \in DOMAIN logDir[f] :
                       /\ k < L
                       /\ PickleSheetLogsFromContent(logDir[f][k]).err = Ok
                       /\ ~Sealed(logDir[f][k]) )
                  => chkRes.err = Unrecoverable

C17_ListingCompleteSorted ==
    lsRes.op = "list" =>
        /\ {lsRes.names[i] : i \in 1..Len(lsRes.names)} = DOMAIN lsRes.dir
        /\ Len(lsRes.names) = Cardinality(DOMAIN lsRes.dir)
        /\ \A i, j \in 1..Len(lsRes.names) :
              i < j => LexLess(Digits(lsRes.names[i]), Digits(lsRes.names[j]))
        /\ lsRes.names = <<>> => DOMAIN lsRes.dir = {}

(***************************************************************************)
(* C16: when writeAll returns nil, whatever part of each buffer the store  *)
(* accepted, the bytes of the file in [off, off + len(content)) are the    *)
(* content and the bytes before off are what they were.                    *)
(***************************************************************************)
C16_ShortWritesInvisible ==
    wr.pc = "ok" =>
        /\ Len(wr.file) >= wr.off0 + Len(wr.content)
        /\ \A i \in 1..Len(wr.content) : wr.file[wr.off0 + i] = wr.content[i]
        /\ \A i \in 1..wr.off0 : wr.file[i] = wr.file0[i]

(***************************************************************************)
(* C18: when checkpoint/C or log/C+1 of the document cannot be read or     *)
(* decoded, Recover builds and returns no sheet and evicts nothing.        *)
(***************************************************************************)
\* C = |checkpoint/|; checkpoint/C (for C > 0) or log/C+1 is missing or
\* does not decode
ReadFails(disk) ==
    LET C == Cardinality(DOMAIN disk.chkp)
    IN  \/ /\ C > 0
           /\ \/ C \notin DOMAIN disk.chkp
              \/ PickleSheetCheckPointFromContent(disk.chkp[C]).err # Ok
        \/ (C + 1) \notin DOMAIN disk.log
        \/ PickleSheetLogsFromContent(disk.log[C + 1]).err # Ok

C18_FailedRecoverNoSheet ==
    \A t \in Threads :
        /\ th[t].pc = "recAdd" => ~ReadFails(DiskOf(th[t].fid))
        /\ ( /\ th[t].pc = "idle"
             /\ th[t].ret.op = "recover"
             /\ ReadFails(DiskOf(th[t].ret.fid)) )
           => (th[t].ret.sid = 0 /\ th[t].ret.evicted = <<>>)

(***************************************************************************)
(* C19: Commit releases the sheet's lock on every path: when it returns,   *)
(* whether after the full protocol, through the short-circuit or after a   *)
(* failed call to the file store, the sheet is unlocked.                   *)
(***************************************************************************)
C19_CommitReleasesLock ==
    \A t \in Threads :
        (th[t].pc = "idle" /\ th[t].ret.op = "commit")
            => ~heap[th[t].ret.sid].locked

(***************************************************************************)
(* C20: a sealed log always has its checkpoint: if log/k ends with the     *)
(* commit marker then checkpoint/k exists and is valid, and a Commit that  *)
(* returns C + 1 has written checkpoint/C+1 with the sheet's content, also *)
(* when calls to the file store fail.                                      *)
(***************************************************************************)
\* checkpoint/k of f holds the sheet s
ChkpHolds(f, k, s) ==
    /\ k \in DOMAIN chkpDir[f]
    /\ LET r == PickleSheetCheckPointFromContent(chkpDir[f][k])
       IN  /\ r.err = Ok
           /\ r.chkp.cid = k
           /\ r.chkp.rows = Shape(s)[1]
           /\ r.chkp.columns = Shape(s)[2]
           /\ r.chkp.content = ToStringSlice(s)

C20_SealedHasCheckpoint ==
    /\ \A f \in Fids : \A k \in DOMAIN logDir[f] :
          Sealed(logDir[f][k]) => (k \in DOMAIN chkpDir[f] /\ ValidChkp(f, k))
    /\ \A t \in Threads :
          LET r == th[t].ret
          IN  ( /\ th[t].pc = "idle"
                /\ r.op = "commit"
                /\ r.cid = Cardinality(DOMAIN r.disk0.chkp) + 1 )
              => ChkpHolds(r.fid, r.cid, heap[r.sid].sheet)

(***************************************************************************)
(* C21: the current checkpoint number equals the checkpoint count: when    *)
(* checkpoint/ of a document holds exactly the files 1..C, the value       *)
(* sheetGetCheckPointNum gives a Commit as curCid is C.                    *)
(***************************************************************************)
C21_CheckPointNumIsCount ==
    \A t \in Threads :
        LET r == th[t]
        IN  (r.pc = "cmChkpCreate" /\ Dense(DOMAIN r.disk0.chkp))
            => r.curCid = Cardinality(DOMAIN r.disk0.chkp)

=============================================================================
